---------------------------- MODULE Spec2Model ----------------------------
(* Model of the parking-lot simulation in src/main.cpp: the Vehicle       *)
(* hierarchy (Car, Truck, Motorbike), the ParkingLot registry, its text    *)
(* persistence in parking_data.txt and the menu loop of main.              *)
(*                                                                         *)
(* Strings that pass through the file are sequences of one-character       *)
(* strings, so that writing a time_t with operator<< and reading it back   *)
(* with operator>> are modelled as the digit conversions they are.         *)
(* Money is kept in units of 1/3600 of the currency unit, so that          *)
(* hours * hourlyRate with hours = seconds / 3600.0 is an integer.         *)
EXTENDS Integers, Sequences, FiniteSets, TLC

VARIABLES
    parkedVehicles,   \* ParkingLot::parkedVehicles, a sequence of vehicles
    totalRevenue,     \* ParkingLot::totalRevenue, in 1/3600 currency units
    store,            \* content of parking_data.txt: a sequence of lines
    storeExists,      \* whether parking_data.txt exists
    now,              \* the system clock, time(0)
    pc,               \* "off": no process; "menu": main is at the menu prompt;
                      \* "teardown": the loop is left, ~ParkingLot is to run;
                      \* "cleanup": saveData has returned to ~ParkingLot
    out,              \* the last message written to cout
    pending,          \* cin: the unread tokens of the line typed last
    eof,              \* cin: the operator has closed the input
    mainPlate,        \* main's local string plate
    saves,            \* history: calls of saveData in the current process
    runs,             \* history: number of processes started so far
    steps,            \* process starts, admission requests, clock advances so far
    prevEarned        \* history: the last terminated run had revenue > 0

vars == <<parkedVehicles, totalRevenue, store, storeExists, now, pc, out,
          pending, eof, mainPlate, saves, runs, steps, prevEarned>>

-----------------------------------------------------------------------------
(* Program constants *)

capacity == 7

SecondsPerHour == 3600

CarRate == 20

TruckRate == 50

MotorbikeRate == 10

\* cin.ignore(10000, '\n')
IgnoreLimit == 10000

\* the largest value of int choice
IntMax == 2147483647

(* Bounds of the model *)

\* number of process starts, admission requests and clock advances in a
\* behaviour, taken together
MaxSteps == 3

-----------------------------------------------------------------------------
(* Strings *)

CarName == <<"C", "a", "r">>

TruckName == <<"T", "r", "u", "c", "k">>

MotorbikeName == <<"M", "o", "t", "o", "r", "b", "i", "k", "e">>

DigitChars == <<"0", "1", "2", "3", "4", "5", "6", "7", "8", "9">>

IsDigit(c) == \E i \in 1..10 : DigitChars[i] = c

DigitValue(c) == (CHOOSE i \in 1..10 : DigitChars[i] = c) - 1

RECURSIVE NatToString(_)
NatToString(n) ==
    IF n < 10 THEN <<DigitChars[n + 1]>>
    ELSE NatToString(n \div 10) \o <<DigitChars[(n % 10) + 1]>>

\* ostream << time_t : decimal digits, a leading '-' for a negative value
WriteInt(n) == IF n < 0 THEN <<"-">> \o NatToString(-n) ELSE NatToString(n)

RECURSIVE DigitRun(_, _)
\* number of consecutive digits of tok starting at position i
DigitRun(tok, i) ==
    IF i <= Len(tok) /\ IsDigit(tok[i]) THEN 1 + DigitRun(tok, i + 1) ELSE 0

RECURSIVE DigitsToNat(_)
DigitsToNat(ds) ==
    IF ds = <<>> THEN 0
    ELSE 10 * DigitsToNat(SubSeq(ds, 1, Len(ds) - 1)) + DigitValue(ds[Len(ds)])

\* istream >> time_t on a stream of whitespace-separated tokens: skips the
\* whitespace, reads an optional sign and the longest run of digits, and
\* leaves the rest of the token in the stream; fails at end of input or
\* when no digit can be read.
ExtractInt(stream) ==
    IF stream = <<>> THEN [ok |-> FALSE, value |-> 0, rest |-> <<>>]
    ELSE LET tok  == Head(stream)
             sign == IF Len(tok) > 0 /\ tok[1] \in {"+", "-"} THEN 1 ELSE 0
             k    == DigitRun(tok, sign + 1)
             mag  == DigitsToNat(SubSeq(tok, sign + 1, sign + k))
         IN  IF k = 0 THEN [ok |-> FALSE, value |-> 0, rest |-> Tail(stream)]
             ELSE [ok    |-> TRUE,
                   value |-> IF sign = 1 /\ tok[1] = "-" THEN -mag ELSE mag,
                   rest  |-> IF sign + k = Len(tok) THEN Tail(stream)
                             ELSE <<SubSeq(tok, sign + k + 1, Len(tok))>>
                                  \o Tail(stream)]

RECURSIVE Flatten(_)
\* the token stream of a file: newlines are whitespace like any other, and
\* a field written from an empty string leaves no token
Flatten(lines) ==
    IF lines = <<>> THEN <<>>
    ELSE SelectSeq(Head(lines), LAMBDA tok : tok # <<>>) \o Flatten(Tail(lines))

-----------------------------------------------------------------------------
(* Vehicle and its subclasses *)

\* Vehicle::Vehicle(plate, type, entry): entry 0 means "now"
Vehicle(plate, type, entry) ==
    [licensePlate |-> plate,
     type         |-> type,
     entryTime    |-> IF entry = 0 THEN now ELSE entry]

Car(plate, t) == Vehicle(plate, CarName, t)

Truck(plate, t) == Vehicle(plate, TruckName, t)

Motorbike(plate, t) == Vehicle(plate, MotorbikeName, t)

\* mutant: the one-hour minimum is left out
BilledSecondsNoMinimum(v) == now - v.entryTime

\* mutant: the one-hour minimum is applied to non-negative durations only
BilledSecondsSignedMinimum(v) ==
    LET seconds == now - v.entryTime
    IN  IF seconds >= 0 /\ seconds < SecondsPerHour THEN SecondsPerHour
        ELSE seconds

\* hours = difftime(now, entryTime) / 3600.0; if (hours < 1.0) hours = 1.0;
\* the result is hours * 3600, the billed seconds
BilledSeconds(v) ==
    LET seconds == now - v.entryTime
    IN  IF seconds < SecondsPerHour THEN SecondsPerHour ELSE seconds

CarFee(v) == BilledSeconds(v) * CarRate

\* mutant: Truck::calculateFee copied from Car with the rate unchanged
TruckFeeCarRate(v) == BilledSeconds(v) * CarRate

TruckFee(v) == BilledSeconds(v) * TruckRate

MotorbikeFee(v) == BilledSeconds(v) * MotorbikeRate

\* virtual dispatch of Vehicle::calculateFee on the dynamic class
calculateFee(v) ==
    CASE v.type = CarName       -> CarFee(v)
      [] v.type = TruckName     -> TruckFee(v)
      [] v.type = MotorbikeName -> MotorbikeFee(v)

-----------------------------------------------------------------------------
(* ParkingLot *)

Message(kind, plate, type, fee) ==
    [kind |-> kind, plate |-> plate, type |-> type, fee |-> fee]

RECURSIVE ReadRecordsStopOnUnknown(_, _)
\* mutant: a record of an unknown type ends the loop
ReadRecordsStopOnUnknown(stream, vehicles) ==
    IF Len(stream) < 2 THEN vehicles
    ELSE LET type  == stream[1]
             plate == stream[2]
             t     == ExtractInt(Tail(Tail(stream)))
         IN  IF ~t.ok THEN vehicles
             ELSE IF type = CarName
               THEN ReadRecordsStopOnUnknown(t.rest,
                        Append(vehicles, Car(plate, t.value)))
             ELSE IF type = TruckName
               THEN ReadRecordsStopOnUnknown(t.rest,
                        Append(vehicles, Truck(plate, t.value)))
             ELSE IF type = MotorbikeName
               THEN ReadRecordsStopOnUnknown(t.rest,
                        Append(vehicles, Motorbike(plate, t.value)))
             ELSE vehicles

RECURSIVE ReadRecords(_, _)
\* while (inFile >> type >> plate >> timeEntry) { ... push_back ... }
ReadRecords(stream, vehicles) ==
    IF Len(stream) < 2 THEN vehicles
    ELSE LET type  == stream[1]
             plate == stream[2]
             t     == ExtractInt(Tail(Tail(stream)))
         IN  IF ~t.ok THEN vehicles
             ELSE ReadRecords(t.rest,
                    IF type = CarName
                      THEN Append(vehicles, Car(plate, t.value))
                    ELSE IF type = TruckName
                      THEN Append(vehicles, Truck(plate, t.value))
                    ELSE IF type = MotorbikeName
                      THEN Append(vehicles, Motorbike(plate, t.value))
                    ELSE vehicles)

\* ParkingLot::loadData: the vector after the call
loadData(vehicles) ==
    IF ~storeExists THEN vehicles
    ELSE ReadRecords(Flatten(store), vehicles)

\* ParkingLot::saveData: the lines written for the vector
saveData(vehicles) ==
    [i \in 1..Len(vehicles) |->
        <<vehicles[i].type, vehicles[i].licensePlate,
          WriteInt(vehicles[i].entryTime)>>]

\* mutant: the new vehicle is inserted at the front of the vector
parkVehiclePrepend(newVehicle) ==
    IF Len(parkedVehicles) >= capacity
      THEN /\ parkedVehicles' = parkedVehicles
           /\ out' = Message("full", newVehicle.licensePlate, <<>>, 0)
      ELSE /\ parkedVehicles' = <<newVehicle>> \o parkedVehicles
           /\ out' = Message("parked", newVehicle.licensePlate,
                             newVehicle.type, 0)

\* mutant: the capacity test is > instead of >=
parkVehicleOffByOne(newVehicle) ==
    IF Len(parkedVehicles) > capacity
      THEN /\ parkedVehicles' = parkedVehicles
           /\ out' = Message("full", newVehicle.licensePlate, <<>>, 0)
      ELSE /\ parkedVehicles' = Append(parkedVehicles, newVehicle)
           /\ out' = Message("parked", newVehicle.licensePlate,
                             newVehicle.type, 0)

\* ParkingLot::parkVehicle
parkVehicle(newVehicle) ==
    IF Len(parkedVehicles) >= capacity
      THEN /\ parkedVehicles' = parkedVehicles
           /\ out' = Message("full", newVehicle.licensePlate, <<>>, 0)
      ELSE /\ parkedVehicles' = Append(parkedVehicles, newVehicle)
           /\ out' = Message("parked", newVehicle.licensePlate,
                             newVehicle.type, 0)

\* mutant: the search keeps the last vehicle with the plate
FirstMatchLast(plate) ==
    LET hits == {i \in 1..Len(parkedVehicles) :
                    parkedVehicles[i].licensePlate = plate}
    IN  IF hits = {} THEN 0
        ELSE CHOOSE i \in hits : \A j \in hits : i >= j

\* mutant: a search that finds nothing stops on the first vehicle
FirstMatchOrBegin(plate) ==
    LET hits == {i \in 1..Len(parkedVehicles) :
                    parkedVehicles[i].licensePlate = plate}
    IN  IF hits = {} THEN (IF parkedVehicles = <<>> THEN 0 ELSE 1)
        ELSE CHOOSE i \in hits : \A j \in hits : i <= j

\* position of the first vehicle with the plate, 0 when there is none
FirstMatch(plate) ==
    LET hits == {i \in 1..Len(parkedVehicles) :
                    parkedVehicles[i].licensePlate = plate}
    IN  IF hits = {} THEN 0
        ELSE CHOOSE i \in hits : \A j \in hits : i <= j

RemoveAt(s, i) == SubSeq(s, 1, i - 1) \o SubSeq(s, i + 1, Len(s))

\* mutant: the loop does not break, every vehicle with the plate is erased
unparkVehicleEraseAll(plate) ==
    LET it == FirstMatch(plate)
        IsOther(v) == v.licensePlate # plate
    IN  IF it # 0
          THEN LET fee == calculateFee(parkedVehicles[it])
               IN  /\ totalRevenue' = totalRevenue + fee
                   /\ out' = Message("receipt",
                                     parkedVehicles[it].licensePlate,
                                     parkedVehicles[it].type, fee)
                   /\ parkedVehicles' = SelectSeq(parkedVehicles, IsOther)
          ELSE /\ out' = Message("notfound", plate, <<>>, 0)
               /\ UNCHANGED <<parkedVehicles, totalRevenue>>

\* ParkingLot::unparkVehicle
unparkVehicle(plate) ==
    LET it == FirstMatch(plate)
    IN  IF it # 0
          THEN LET fee == calculateFee(parkedVehicles[it])
               IN  /\ totalRevenue' = totalRevenue + fee
                   /\ out' = Message("receipt",
                                     parkedVehicles[it].licensePlate,
                                     parkedVehicles[it].type, fee)
                   /\ parkedVehicles' = RemoveAt(parkedVehicles, it)
          ELSE /\ out' = Message("notfound", plate, <<>>, 0)
               /\ UNCHANGED <<parkedVehicles, totalRevenue>>

-----------------------------------------------------------------------------
(* Inputs *)

PlateA == <<"A">>

PlateB == <<"B">>

PlateC == <<"C">>

\* plates the operator types when admitting a vehicle
AdmitPlates == {PlateA}

\* plates the operator types when releasing a vehicle
ReleasePlates == {PlateA, PlateB}

\* the clock when the first process starts
StartTime == 2 * SecondsPerHour + 400

\* seconds by which the clock advances between two operations
TickSteps == {SecondsPerHour \div 2}

Line(type, plate, t) == <<type, plate, WriteInt(t)>>

HourAgo == StartTime - SecondsPerHour

LongAgo == StartTime - (2 * SecondsPerHour)

Later == StartTime + (4 * SecondsPerHour)

SixRecords ==
    <<Line(CarName, PlateA, HourAgo), Line(TruckName, PlateB, LongAgo),
      Line(MotorbikeName, PlateC, HourAgo), Line(CarName, PlateC, LongAgo),
      Line(TruckName, PlateC, HourAgo), Line(MotorbikeName, PlateC, HourAgo)>>

\* contents parking_data.txt may have when the first process starts
InitialStores ==
    { <<>>,
      <<Line(CarName, PlateA, HourAgo), Line(TruckName, PlateB, LongAgo)>>,
      \* a line without its timestamp between two well-formed lines
      <<Line(CarName, PlateA, HourAgo), <<TruckName, PlateB>>,
        Line(MotorbikeName, PlateC, LongAgo)>>,
      \* a timestamp of 0, a negative one and one in the future
      <<Line(CarName, PlateC, 0), Line(TruckName, PlateB, -5)>>,
      <<Line(MotorbikeName, PlateA, Later)>>,
      \* a category that is none of Car, Truck, Motorbike
      <<Line(CarName, PlateA, HourAgo), Line(<<"B", "u", "s">>, PlateB, HourAgo),
        Line(TruckName, PlateB, LongAgo)>>,
      \* two vehicles with the same plate
      <<Line(CarName, PlateA, LongAgo), Line(TruckName, PlateA, HourAgo)>>,
      SixRecords,
      SixRecords \o <<Line(CarName, PlateC, HourAgo)>>,
      SixRecords \o <<Line(CarName, PlateC, HourAgo),
                      Line(TruckName, PlateC, LongAgo)>> }

-----------------------------------------------------------------------------
(* Standard input *)

RECURSIVE Repeat(_, _)
\* a token of n characters c
Repeat(c, n) ==
    IF n = 0 THEN <<>>
    ELSE LET half == Repeat(c, n \div 2)
         IN  IF n % 2 = 0 THEN half \o half ELSE Append(half \o half, c)

\* lines the operator types when main waits at the menu prompt
MenuLines ==
    { <<<<"1">>>>, <<<<"2">>>>, <<<<"3">>>>, <<<<"4">>>>, <<<<"5">>>>,
      <<<<"0">>>>,
      \* a number that is no menu entry
      <<<<"9">>>>,
      \* a number that does not fit int
      <<<<"4", "2", "9", "4", "9", "6", "7", "2", "9", "7">>>>,
      \* a non-numeric token followed by more input on the same line
      <<<<"x">>, <<"0">>>>,
      \* the same with a first token of IgnoreLimit characters
      <<Repeat("x", IgnoreLimit), <<"0">>>>,
      \* two choices on one line
      <<<<"5">>, <<"1">>>> }

RECURSIVE Ignore(_, _)
RECURSIVE IgnoreFromSeparator(_, _)
\* cin.ignore(n, '\n') with cin at the first character of the token
\* Head(tokens) of the current line: what is left of the line
Ignore(tokens, n) ==
    LET tok == Head(tokens)
    IN  IF Len(tok) > n
          THEN <<SubSeq(tok, n + 1, Len(tok))>> \o Tail(tokens)
          ELSE IgnoreFromSeparator(Tail(tokens), n - Len(tok))

\* the same with cin at the whitespace that follows a token: the newline
\* when no token follows on the line
IgnoreFromSeparator(tokens, n) ==
    IF tokens = <<>> THEN <<>>
    ELSE IF n = 0 THEN tokens
    ELSE Ignore(tokens, n - 1)

RECURSIVE StripZeros(_)
\* a run of digits without its leading zeros
StripZeros(ds) ==
    IF Len(ds) > 1 /\ ds[1] = "0" THEN StripZeros(Tail(ds)) ELSE ds

RECURSIVE DigitsLeq(_, _)
\* a <= b for two runs of digits of the same length
DigitsLeq(a, b) ==
    IF a = <<>> THEN TRUE
    ELSE IF a[1] # b[1] THEN DigitValue(a[1]) < DigitValue(b[1])
    ELSE DigitsLeq(Tail(a), Tail(b))

\* whether the number read lies in the range of int
FitsInt(negative, digits) ==
    LET ds  == StripZeros(digits)
        max == WriteInt(IntMax)
        min == SubSeq(max, 1, Len(max) - 1) \o <<"8">>
    IN  \/ Len(ds) < Len(max)
        \/ Len(ds) = Len(max) /\ DigitsLeq(ds, IF negative THEN min ELSE max)

\* cin >> choice on the unread tokens of a line, and, when it fails,
\* cin.clear(); cin.ignore(10000, '\n'): rest is what is left of the line
ReadChoice(tokens) ==
    LET tok  == Head(tokens)
        sign == IF Len(tok) > 0 /\ tok[1] \in {"+", "-"} THEN 1 ELSE 0
        k    == DigitRun(tok, sign + 1)
        r    == ExtractInt(tokens)
        left == SubSeq(tok, sign + k + 1, Len(tok))
        fits == FitsInt(sign = 1 /\ tok[1] = "-", SubSeq(tok, sign + 1, sign + k))
    IN  IF k > 0 /\ fits
          THEN [ok |-> TRUE, value |-> r.value, rest |-> r.rest]
          ELSE [ok |-> FALSE, value |-> 0,
                rest |-> IF left = <<>>
                           THEN IgnoreFromSeparator(Tail(tokens), IgnoreLimit)
                           ELSE Ignore(<<left>> \o Tail(tokens), IgnoreLimit)]

\* the outcomes of cin >> choice for the lines typed at the menu prompt
TypedChoiceReads == {ReadChoice(line) : line \in MenuLines}

\* the outcomes of cin >> choice: from the tokens still unread, else from
\* the line the operator types now, else a failure at the end of input
ChoiceReads ==
    IF pending # <<>> THEN {ReadChoice(pending)}
    ELSE IF eof THEN {[ok |-> FALSE, value |-> 0, rest |-> <<>>]}
    ELSE TypedChoiceReads

\* the outcomes of cin >> plate after the choice: the next unread token,
\* else the token the operator types now, else, at the end of input, a
\* failure that leaves main's plate as it was
PlateReads(rest, typed) ==
    IF rest # <<>> THEN {[plate |-> Head(rest), rest |-> Tail(rest)]}
    ELSE IF eof THEN {[plate |-> mainPlate, rest |-> <<>>]}
    ELSE {[plate |-> p, rest |-> <<>>] : p \in typed}

\* the plates that reach the registry from standard input
Plates == AdmitPlates \cup ReleasePlates \cup {<<>>}

-----------------------------------------------------------------------------
(* The process: ParkingLot's constructor, main's loop, the destructor *)

Init ==
    /\ parkedVehicles = <<>>
    /\ totalRevenue = 0
    /\ store \in InitialStores
    /\ storeExists \in BOOLEAN
    /\ (~storeExists => store = <<>>)
    /\ now = StartTime
    /\ pc = "off"
    /\ out = Message("none", <<>>, <<>>, 0)
    /\ pending = <<>>
    /\ eof = FALSE
    /\ mainPlate = <<>>
    /\ saves = 0
    /\ runs = 0
    /\ steps = 0
    /\ prevEarned = FALSE

\* mutant: the accumulator is not initialised to 0.0 by the constructor
ConstructKeepsRevenue ==
    /\ pc = "off"
    /\ steps < MaxSteps
    /\ totalRevenue' = totalRevenue
    /\ parkedVehicles' = loadData(<<>>)
    /\ out' = Message(IF storeExists THEN "loaded" ELSE "banner", <<>>, <<>>, 0)
    /\ pc' = "menu"
    /\ saves' = 0
    /\ runs' = runs + 1
    /\ steps' = steps + 1
    /\ UNCHANGED <<store, storeExists, now, pending, eof, mainPlate, prevEarned>>

\* ParkingLot::ParkingLot() : totalRevenue(0.0) { loadData(); }
\* followed by main up to the first menu prompt
Construct ==
    /\ pc = "off"
    /\ steps < MaxSteps
    /\ totalRevenue' = 0
    /\ parkedVehicles' = loadData(<<>>)
    /\ out' = Message(IF storeExists THEN "loaded" ELSE "banner", <<>>, <<>>, 0)
    /\ pc' = "menu"
    /\ saves' = 0
    /\ runs' = runs + 1
    /\ steps' = steps + 1
    /\ UNCHANGED <<store, storeExists, now, pending, eof, mainPlate, prevEarned>>

\* case 1: cin >> plate; parkVehicle(new Car(plate))
ParkCar(p) ==
    /\ pc = "menu"
    /\ steps < MaxSteps
    /\ \E c \in ChoiceReads :
          /\ c.ok /\ c.value = 1
          /\ \E r \in PlateReads(c.rest, AdmitPlates) :
                /\ r.plate = p
                /\ pending' = r.rest
    /\ mainPlate' = p
    /\ parkVehicle(Car(p, 0))
    /\ steps' = steps + 1
    /\ UNCHANGED <<totalRevenue, store, storeExists, now, pc, eof, saves, runs,
                   prevEarned>>

\* case 2: cin >> plate; parkVehicle(new Truck(plate))
ParkTruck(p) ==
    /\ pc = "menu"
    /\ steps < MaxSteps
    /\ \E c \in ChoiceReads :
          /\ c.ok /\ c.value = 2
          /\ \E r \in PlateReads(c.rest, AdmitPlates) :
                /\ r.plate = p
                /\ pending' = r.rest
    /\ mainPlate' = p
    /\ parkVehicle(Truck(p, 0))
    /\ steps' = steps + 1
    /\ UNCHANGED <<totalRevenue, store, storeExists, now, pc, eof, saves, runs,
                   prevEarned>>

\* case 3: cin >> plate; parkVehicle(new Motorbike(plate))
ParkMotorbike(p) ==
    /\ pc = "menu"
    /\ steps < MaxSteps
    /\ \E c \in ChoiceReads :
          /\ c.ok /\ c.value = 3
          /\ \E r \in PlateReads(c.rest, AdmitPlates) :
                /\ r.plate = p
                /\ pending' = r.rest
    /\ mainPlate' = p
    /\ parkVehicle(Motorbike(p, 0))
    /\ steps' = steps + 1
    /\ UNCHANGED <<totalRevenue, store, storeExists, now, pc, eof, saves, runs,
                   prevEarned>>

\* case 4: cin >> plate; unparkVehicle(plate)
Unpark(p) ==
    /\ pc = "menu"
    /\ \E c \in ChoiceReads :
          /\ c.ok /\ c.value = 4
          /\ \E r \in PlateReads(c.rest, ReleasePlates) :
                /\ r.plate = p
                /\ pending' = r.rest
    /\ mainPlate' = p
    /\ unparkVehicle(p)
    /\ UNCHANGED <<store, storeExists, now, pc, eof, saves, runs, steps,
                   prevEarned>>

\* case 5: displayStatus()
Display ==
    /\ pc = "menu"
    /\ \E c \in ChoiceReads :
          /\ c.ok /\ c.value = 5
          /\ pending' = c.rest
    /\ out' = Message("status", <<>>, <<>>, 0)
    /\ UNCHANGED <<parkedVehicles, totalRevenue, store, storeExists, now, pc,
                   eof, mainPlate, saves, runs, steps, prevEarned>>

\* default: a number that is none of 0 to 5
InvalidSelection ==
    /\ pc = "menu"
    /\ \E c \in ChoiceReads :
          /\ c.ok /\ c.value \notin 0..5
          /\ pending' = c.rest
    /\ out' = Message("invalidselection", <<>>, <<>>, 0)
    /\ UNCHANGED <<parkedVehicles, totalRevenue, store, storeExists, now, pc,
                   eof, mainPlate, saves, runs, steps, prevEarned>>

\* mutant: the loop is left when the read fails at the end of input
InvalidInputBreaksAtEof ==
    /\ pc = "menu"
    /\ \E c \in ChoiceReads :
          /\ ~c.ok
          /\ pending' = c.rest
    /\ out' = Message("invalidinput", <<>>, <<>>, 0)
    /\ pc' = IF eof /\ pending = <<>> THEN "teardown" ELSE pc
    /\ UNCHANGED <<parkedVehicles, totalRevenue, store, storeExists, now,
                   eof, mainPlate, saves, runs, steps, prevEarned>>

\* if (!(cin >> choice)) { ...; cin.clear(); cin.ignore(10000, '\n'); continue; }
InvalidInput ==
    /\ pc = "menu"
    /\ \E c \in ChoiceReads :
          /\ ~c.ok
          /\ pending' = c.rest
    /\ out' = Message("invalidinput", <<>>, <<>>, 0)
    /\ UNCHANGED <<parkedVehicles, totalRevenue, store, storeExists, now, pc,
                   eof, mainPlate, saves, runs, steps, prevEarned>>

\* mutant: the process is ended without running the destructor's save
ExitWithoutSave ==
    /\ pc = "menu"
    /\ \E c \in ChoiceReads :
          /\ c.ok /\ c.value = 0
          /\ pending' = c.rest
    /\ out' = Message("goodbye", <<>>, <<>>, 0)
    /\ pc' = "cleanup"
    /\ UNCHANGED <<parkedVehicles, totalRevenue, store, storeExists, now,
                   eof, mainPlate, saves, runs, steps, prevEarned>>

\* if (choice == 0) break; ... "System shutting down. Goodbye!"; return 0;
Exit ==
    /\ pc = "menu"
    /\ \E c \in ChoiceReads :
          /\ c.ok /\ c.value = 0
          /\ pending' = c.rest
    /\ out' = Message("goodbye", <<>>, <<>>, 0)
    /\ pc' = "teardown"
    /\ UNCHANGED <<parkedVehicles, totalRevenue, store, storeExists, now,
                   eof, mainPlate, saves, runs, steps, prevEarned>>

\* mutant: the file is opened for appending
SaveAppends(writable) ==
    /\ pc = "teardown"
    /\ IF writable
         THEN /\ store' = store \o saveData(parkedVehicles)
              /\ storeExists' = TRUE
              /\ out' = Message("saved", <<>>, <<>>, 0)
         ELSE /\ UNCHANGED <<store, storeExists>>
              /\ out' = Message("saveerror", <<>>, <<>>, 0)
    /\ saves' = saves + 1
    /\ pc' = "cleanup"
    /\ UNCHANGED <<parkedVehicles, totalRevenue, now, pending, eof, mainPlate,
                   runs, steps, prevEarned>>

\* ~ParkingLot() { saveData(); ...
\* writable: whether ofstream could open parking_data.txt
Save(writable) ==
    /\ pc = "teardown"
    /\ IF writable
         THEN /\ store' = saveData(parkedVehicles)
              /\ storeExists' = TRUE
              /\ out' = Message("saved", <<>>, <<>>, 0)
         ELSE /\ UNCHANGED <<store, storeExists>>
              /\ out' = Message("saveerror", <<>>, <<>>, 0)
    /\ saves' = saves + 1
    /\ pc' = "cleanup"
    /\ UNCHANGED <<parkedVehicles, totalRevenue, now, pending, eof, mainPlate,
                   runs, steps, prevEarned>>

\* ... delete v; parkedVehicles.clear(); } and the process, with its
\* standard input, ends
Destroy ==
    /\ pc = "cleanup"
    /\ parkedVehicles' = <<>>
    /\ prevEarned' = (totalRevenue > 0)
    /\ pending' = <<>>
    /\ eof' = FALSE
    /\ mainPlate' = <<>>
    /\ pc' = "off"
    /\ UNCHANGED <<totalRevenue, store, storeExists, now, out, saves, runs,
                   steps>>

\* the operator closes standard input
CloseInput ==
    /\ pc = "menu"
    /\ ~eof
    /\ steps < MaxSteps
    /\ eof' = TRUE
    /\ steps' = steps + 1
    /\ UNCHANGED <<parkedVehicles, totalRevenue, store, storeExists, now, pc,
                   out, pending, mainPlate, saves, runs, prevEarned>>

\* the clock advances
Tick(d) ==
    /\ steps < MaxSteps
    /\ now' = now + d
    /\ steps' = steps + 1
    /\ UNCHANGED <<parkedVehicles, totalRevenue, store, storeExists, pc, out,
                   pending, eof, mainPlate, saves, runs, prevEarned>>

Next ==
    \/ Construct
    \/ \E p \in Plates : ParkCar(p)
    \/ \E p \in Plates : ParkTruck(p)
    \/ \E p \in Plates : ParkMotorbike(p)
    \/ \E p \in Plates : Unpark(p)
    \/ Display
    \/ InvalidSelection
    \/ InvalidInput
    \/ Exit
    \/ \E writable \in BOOLEAN : Save(writable)
    \/ Destroy
    \/ CloseInput
    \/ \E d \in TickSteps : Tick(d)

Spec == Init /\ [][Next]_vars

-----------------------------------------------------------------------------
(* Properties *)

VehicleTypes == {CarName, TruckName, MotorbikeName}

\* the process has just been constructed: nothing was done since loadData
JustLoaded == pc = "menu" /\ out.kind = "loaded"

\* new is old without its i-th entry, the others in their order
IsRemovalAt(old, new, i) ==
    /\ Len(new) = Len(old) - 1
    /\ \A j \in 1..Len(new) : new[j] = IF j < i THEN old[j] ELSE old[j + 1]

\* a step of main's cases 1 to 3 for the plate
AdmitStep(plate) == ParkCar(plate) \/ ParkTruck(plate) \/ ParkMotorbike(plate)

\* C1: in every reachable state the number of parked vehicles is at most
\* the capacity 7, whatever the store held when the process started.
C1_OccupancyWithinCapacity == Len(parkedVehicles) <= capacity

\* C2: an admission while occupancy equals the capacity is rejected: the
\* parked sequence and the revenue are unchanged (so the rejected vehicle
\* is not in the sequence afterwards) and "lot full" is reported.
C2_FullLotRejects ==
    [][\A plate \in Plates :
          (AdmitStep(plate) /\ Len(parkedVehicles) = capacity)
          => /\ parkedVehicles' = parkedVehicles
             /\ totalRevenue' = totalRevenue
             /\ out'.kind = "full"
             /\ out'.plate = plate]_vars

C2_Witness ==
    /\ out.kind = "full"
    /\ Len(parkedVehicles) = capacity

\* C3: a release with a plate that matches a parked vehicle removes exactly
\* one entry with that plate, keeps the other entries in their order and
\* adds to the revenue exactly the fee of the removed vehicle at the
\* current time.
C3_ReleaseRemovesOne ==
    [][\A plate \in Plates :
          (Unpark(plate) /\ \E i \in 1..Len(parkedVehicles) :
                                parkedVehicles[i].licensePlate = plate)
          => \E i \in 1..Len(parkedVehicles) :
                /\ parkedVehicles[i].licensePlate = plate
                /\ IsRemovalAt(parkedVehicles, parkedVehicles', i)
                /\ totalRevenue' =
                     totalRevenue + calculateFee(parkedVehicles[i])]_vars

C3_Witness ==
    /\ out.kind = "receipt"
    /\ totalRevenue = out.fee
    /\ \E i \in 1..Len(parkedVehicles) :
          parkedVehicles[i].licensePlate = out.plate

\* C4: a release with a plate that matches no parked vehicle reports
\* not-found and changes neither the parked sequence nor the revenue.
C4_AbsentPlateNoChange ==
    [][\A plate \in Plates :
          (Unpark(plate) /\ \A i \in 1..Len(parkedVehicles) :
                                parkedVehicles[i].licensePlate # plate)
          => /\ parkedVehicles' = parkedVehicles
             /\ totalRevenue' = totalRevenue
             /\ out'.kind = "notfound"
             /\ out'.plate = plate]_vars

C4_Witness ==
    /\ out.kind = "notfound"
    /\ parkedVehicles = <<>>
    /\ totalRevenue = 0

\* a token that operator>> reads whole as an integer
IsIntegerToken(tok) ==
    LET sign == IF Len(tok) > 0 /\ tok[1] \in {"+", "-"} THEN 1 ELSE 0
    IN  Len(tok) > sign /\ \A i \in (sign + 1)..Len(tok) : IsDigit(tok[i])

\* a persisted line of the form <Category> <Plate> <EpochSeconds>
WellFormedLine(line) ==
    /\ Len(line) = 3
    /\ line[1] \in VehicleTypes
    /\ IsIntegerToken(line[3])

\* the (category, plate, entry-instant) triple a well-formed line stands for
RecordOf(line) ==
    [licensePlate |-> line[2],
     type         |-> line[1],
     entryTime    |-> ExtractInt(<<line[3]>>).value]

\* C5: on load, a malformed line is skipped and every well-formed line
\* before and after it is loaded with its own category, plate and entry
\* instant.
C5_MalformedLineSkipped ==
    (JustLoaded /\ \E k \in 1..Len(store) : ~WellFormedLine(store[k]))
    => LET good == SelectSeq(store, WellFormedLine)
       IN  parkedVehicles = [i \in 1..Len(good) |-> RecordOf(good[i])]

\* C6: saving a reachable parked sequence and loading the result into a
\* fresh registry at the same instant gives the same sequence of
\* (category, plate, entry-instant) triples in the same order.
C6_SaveLoadRoundTrip ==
    pc = "menu"
    => ReadRecords(Flatten(saveData(parkedVehicles)), <<>>) = parkedVehicles

\* durations, in seconds, around the one-hour boundary, in increasing order
Durations ==
    <<0, 1, SecondsPerHour - 1, SecondsPerHour, SecondsPerHour + 1,
      2 * SecondsPerHour, 2 * SecondsPerHour + 1>>

\* C7: for every category and every duration d >= 0 the fee is
\* rate * max(1, d / 3600) with rates 20, 50, 10 (here in 1/3600 units:
\* rate * max(3600, d)); it is non-decreasing in d, equal to the rate when
\* d <= 3600 and greater than the rate when d > 3600.
C7_FeeFormula ==
    LET Rate(type) == CASE type = CarName       -> 20
                        [] type = TruckName     -> 50
                        [] type = MotorbikeName -> 10
        Parked(type, d) ==
            [licensePlate |-> PlateA, type |-> type, entryTime |-> now - d]
        Expected(type, d) ==
            Rate(type) * (IF d > 3600 THEN d ELSE 3600)
    IN  /\ \A type \in VehicleTypes : \A k \in 1..Len(Durations) :
              LET d   == Durations[k]
                  fee == calculateFee(Parked(type, d))
              IN  /\ fee = Expected(type, d)
                  /\ (d <= 3600 => fee = Rate(type) * 3600)
                  /\ (d > 3600 => fee > Rate(type) * 3600)
                  /\ k < Len(Durations)
                     => fee <= calculateFee(Parked(type, Durations[k + 1]))
        /\ \A i \in 1..Len(parkedVehicles) :
              LET v == parkedVehicles[i]
              IN  (pc = "menu" /\ now - v.entryTime >= 0)
                  => calculateFee(v) = Expected(v.type, now - v.entryTime)
        /\ out.kind = "receipt" => out.fee >= Rate(out.type) * 3600

C7_Witness ==
    /\ out.kind = "receipt"
    /\ out.type = TruckName
    /\ out.fee > 50 * 3600
    /\ \E i \in 1..Len(parkedVehicles) :
          /\ now - parkedVehicles[i].entryTime = 3600
          /\ calculateFee(parkedVehicles[i]) = 20 * 3600

\* C8: every record loaded from the store gets the stored epoch-seconds
\* integer as its entry instant, for every stored value including 0.
C8_LoadedEntryIsStored ==
    (JustLoaded /\ \A k \in 1..Len(store) : WellFormedLine(store[k]))
    => /\ Len(parkedVehicles) = Len(store)
       /\ \A i \in 1..Len(store) :
             parkedVehicles[i].entryTime = RecordOf(store[i]).entryTime

\* C9: within a run the revenue never decreases, and it changes only in a
\* release that finds a matching plate.
C9_RevenueMonotone ==
    [][runs' = runs
       => /\ totalRevenue' >= totalRevenue
          /\ totalRevenue' # totalRevenue
             => \E plate \in Plates :
                   /\ Unpark(plate)
                   /\ \E i \in 1..Len(parkedVehicles) :
                         parkedVehicles[i].licensePlate = plate]_vars

C9_Witness ==
    /\ out.kind = "receipt"
    /\ out.fee > 0
    /\ totalRevenue > out.fee

\* C10: revenue is not persisted. A save writes one three-field line per
\* parked vehicle and nothing else, and a run starts with revenue 0 and the
\* parked vehicles read from the store, whatever the previous run earned.
C10_RevenueNotPersisted ==
    [][/\ (pc = "teardown" /\ out'.kind = "saved")
          => /\ Len(store') = Len(parkedVehicles)
             /\ \A i \in 1..Len(store') :
                   /\ WellFormedLine(store'[i])
                   /\ RecordOf(store'[i]) = parkedVehicles[i]
       /\ (pc = "off" /\ pc' = "menu")
          => /\ totalRevenue' = 0
             /\ store' = store
             /\ storeExists => parkedVehicles' = ReadRecords(Flatten(store), <<>>)
             /\ ~storeExists => parkedVehicles' = <<>>]_vars

C10_Witness ==
    /\ JustLoaded
    /\ runs = 2
    /\ prevEarned
    /\ totalRevenue = 0
    /\ store = saveData(parkedVehicles)
    /\ parkedVehicles # <<>>

\* a persisted line with three fields and an integer timestamp
ThreeFieldLine(line) == Len(line) = 3 /\ IsIntegerToken(line[3])

\* C11: on load, a three-field record with an integer timestamp whose
\* category is none of Car, Truck, Motorbike is dropped, and every other
\* such record, before and after it, is loaded in store order.
C11_UnknownCategoryDropped ==
    (/\ JustLoaded
     /\ \A k \in 1..Len(store) : ThreeFieldLine(store[k])
     /\ \E k \in 1..Len(store) : store[k][1] \notin VehicleTypes)
    => LET known == SelectSeq(store, WellFormedLine)
       IN  /\ Len(parkedVehicles) = Len(known)
           /\ \A i \in 1..Len(known) :
                 /\ parkedVehicles[i].type = known[i][1]
                 /\ parkedVehicles[i].licensePlate = known[i][2]
                 /\ RecordOf(known[i]).entryTime # 0
                    => parkedVehicles[i] = RecordOf(known[i])

C11_Witness ==
    /\ JustLoaded
    /\ Len(store) = 3
    /\ \A k \in 1..Len(store) : ThreeFieldLine(store[k])
    /\ store[2][1] \notin VehicleTypes
    /\ parkedVehicles = <<RecordOf(store[1]), RecordOf(store[3])>>

\* positions of the parked vehicles with the plate
Matches(vehicles, plate) ==
    {i \in 1..Len(vehicles) : vehicles[i].licensePlate = plate}

\* C15: an admission below capacity is accepted also when the plate is
\* already parked, and a release with a plate that several parked vehicles
\* have removes the one at the lowest position and leaves the later ones.
C15_EarliestMatchReleased ==
    [][/\ \A plate \in Plates :
             (/\ AdmitStep(plate)
              /\ Len(parkedVehicles) < capacity
              /\ Matches(parkedVehicles, plate) # {})
             => /\ Len(parkedVehicles') = Len(parkedVehicles) + 1
                /\ Cardinality(Matches(parkedVehicles', plate))
                     = Cardinality(Matches(parkedVehicles, plate)) + 1
       /\ \A plate \in Plates :
             (Unpark(plate) /\ Cardinality(Matches(parkedVehicles, plate)) >= 2)
             => LET hits  == Matches(parkedVehicles, plate)
                    first == CHOOSE i \in hits : \A j \in hits : i <= j
                IN  /\ IsRemovalAt(parkedVehicles, parkedVehicles', first)
                    /\ \A j \in hits \ {first} :
                          parkedVehicles'[j - 1] = parkedVehicles[j]]_vars

C15_Witness ==
    /\ out.kind = "receipt"
    /\ out.type = CarName
    /\ Cardinality(Matches(parkedVehicles, out.plate)) >= 2
    /\ \E i \in Matches(parkedVehicles, out.plate) :
          parkedVehicles[i].entryTime = now

\* C16: an admission below capacity appends the new vehicle, with the
\* current time as entry instant, at the end of the parked sequence and
\* changes neither the existing entries nor the revenue; every step of a
\* run leaves the sequence, appends to it or removes one entry from it, so
\* the sequence stays in admission order.
C16_AdmitAppends ==
    [][/\ \A plate \in Plates :
             LET New(type) == [licensePlate |-> plate, type |-> type,
                               entryTime |-> now]
                 Appended(type) ==
                     /\ parkedVehicles' = Append(parkedVehicles, New(type))
                     /\ totalRevenue' = totalRevenue
             IN  Len(parkedVehicles) < capacity
                 => /\ ParkCar(plate) => Appended(CarName)
                    /\ ParkTruck(plate) => Appended(TruckName)
                    /\ ParkMotorbike(plate) => Appended(MotorbikeName)
       /\ (pc = "menu" /\ pc' = "menu")
          => \/ parkedVehicles' = parkedVehicles
             \/ /\ Len(parkedVehicles') = Len(parkedVehicles) + 1
                /\ SubSeq(parkedVehicles', 1, Len(parkedVehicles))
                     = parkedVehicles
             \/ \E i \in 1..Len(parkedVehicles) :
                   IsRemovalAt(parkedVehicles, parkedVehicles', i)]_vars

C16_Witness ==
    /\ out.kind = "parked"
    /\ Len(parkedVehicles) >= 2
    /\ parkedVehicles[Len(parkedVehicles)].entryTime = now
    /\ parkedVehicles[Len(parkedVehicles)].licensePlate = out.plate
    /\ parkedVehicles[Len(parkedVehicles)].type = out.type
    /\ parkedVehicles[1].entryTime < now

\* entry instants relative to the clock, some of them later than the clock
EntryOffsets ==
    {-(2 * SecondsPerHour), -SecondsPerHour - 1, -SecondsPerHour, -1, 0, 1,
     SecondsPerHour, 4 * SecondsPerHour}

\* C18: for every category and every entry instant, also one later than
\* the current time, the fee is at least the category's rate, and every
\* release that finds its plate increases the revenue by at least 10.
C18_FeeAtLeastRate ==
    [][LET Rate(type) == CASE type = CarName       -> 20
                           [] type = TruckName     -> 50
                           [] type = MotorbikeName -> 10
       IN  /\ \A type \in VehicleTypes : \A o \in EntryOffsets :
                 calculateFee([licensePlate |-> PlateA, type |-> type,
                               entryTime |-> now + o]) >= Rate(type) * 3600
           /\ \A i \in 1..Len(parkedVehicles) :
                 calculateFee(parkedVehicles[i])
                   >= Rate(parkedVehicles[i].type) * 3600
           /\ \A plate \in Plates :
                 (Unpark(plate) /\ Matches(parkedVehicles, plate) # {})
                 => /\ totalRevenue' >= totalRevenue + 10 * 3600
                    /\ totalRevenue' > totalRevenue]_vars

C18_Witness ==
    /\ out.kind = "receipt"
    /\ out.type = MotorbikeName
    /\ out.fee = 10 * 3600
    /\ totalRevenue = out.fee
    /\ \E k \in 1..Len(store) :
          /\ WellFormedLine(store[k])
          /\ store[k][2] = out.plate
          /\ RecordOf(store[k]).entryTime > now

\* the store's content is exactly the vector: one record per vehicle, in
\* registry order
StoreHolds(lines, vehicles) ==
    /\ Len(lines) = Len(vehicles)
    /\ \A i \in 1..Len(lines) :
          /\ WellFormedLine(lines[i])
          /\ RecordOf(lines[i]) = vehicles[i]

\* C12: the destructor's save never changes the parked sequence or the
\* revenue. When the file can be opened, the store afterwards holds exactly
\* the parked sequence, one record per vehicle in registry order, and
\* nothing of its previous content; when it cannot, the store is unchanged;
\* in both cases the destructor goes on.
C12_SaveOverwritesOrLeaves ==
    [][(pc = "teardown" /\ pc' # "teardown")
       => /\ pc' = "cleanup"
          /\ parkedVehicles' = parkedVehicles
          /\ totalRevenue' = totalRevenue
          /\ out'.kind \in {"saved", "saveerror"}
          /\ out'.kind = "saved"
             => /\ storeExists'
                /\ StoreHolds(store', parkedVehicles)
                /\ store' = saveData(parkedVehicles)
          /\ out'.kind = "saveerror"
             => /\ store' = store
                /\ storeExists' = storeExists]_vars

C12_Witness ==
    /\ pc = "cleanup"
    /\ out.kind = "saved"
    /\ totalRevenue > 0
    /\ parkedVehicles # <<>>
    /\ StoreHolds(store, parkedVehicles)

\* C13: the loop is left exactly by a read of 0 at the menu prompt; from
\* then until the process ends the parked sequence is the one at the moment
\* of exit, saveData runs exactly once, and with a writable file the store
\* at the end of the process is that parked sequence.
C13_ExitSavesOnce ==
    [][/\ (pc = "menu" /\ pc' # "menu")
          => /\ Exit
             /\ pc' = "teardown"
             /\ saves = 0
       /\ Exit => pc' = "teardown"
       /\ pc = "teardown"
          => /\ parkedVehicles' = parkedVehicles
             /\ totalRevenue' = totalRevenue
             /\ pc' \in {"teardown", "cleanup"}
             /\ pc' = "teardown" => (store' = store /\ saves' = saves)
             /\ pc' = "cleanup"
                => /\ saves' = 1
                   /\ out'.kind = "saved"
                      => StoreHolds(store', parkedVehicles)
       /\ pc = "cleanup"
          => /\ saves = 1
             /\ saves' = 1
             /\ store' = store
             /\ storeExists' = storeExists
             /\ totalRevenue' = totalRevenue
             /\ \/ pc' = "cleanup" /\ parkedVehicles' = parkedVehicles
                \/ pc' = "off" /\ parkedVehicles' = <<>>]_vars

C13_Witness ==
    /\ pc = "off"
    /\ saves = 1
    /\ out.kind = "saved"
    /\ \E k \in 1..Len(store) :
          /\ WellFormedLine(store[k])
          /\ RecordOf(store[k]).entryTime = now

\* C14: a menu input that is no number, or a number outside 0..5, changes
\* neither the parked sequence nor the revenue nor the store and leaves
\* main at the menu prompt; after an input that is no number nothing of
\* its line is left to be read.
C14_InvalidInputDiscardsLine ==
    [][/\ (InvalidInput \/ InvalidSelection)
          => /\ parkedVehicles' = parkedVehicles
             /\ totalRevenue' = totalRevenue
             /\ store' = store
             /\ storeExists' = storeExists
             /\ pc' = "menu"
       /\ InvalidInput => pending' = <<>>]_vars

\* cin has nothing left to read and will get nothing more
InputExhausted == pc = "menu" /\ eof /\ pending = <<>>

\* C17: the loop is left only by a read of 0 at the menu prompt. Once the
\* input is exhausted at the menu prompt, every step of the process is the
\* invalid-input branch: main stays at the menu prompt, the parked sequence,
\* the revenue and the store stay as they are, and saveData is not called.
C17_ExhaustedInputLoopsForever ==
    [][/\ (pc = "menu" /\ pc' # "menu") => Exit
       /\ InputExhausted
          => /\ pc' = "menu"
             /\ eof'
             /\ pending' = <<>>
             /\ saves' = saves
             /\ store' = store
             /\ storeExists' = storeExists
             /\ parkedVehicles' = parkedVehicles
             /\ totalRevenue' = totalRevenue
             /\ out' # out => (InvalidInput /\ out'.kind = "invalidinput")]_vars

C17_Witness ==
    /\ InputExhausted
    /\ out.kind = "invalidinput"
    /\ saves = 0
    /\ \E i \in 1..Len(parkedVehicles) : parkedVehicles[i].licensePlate = <<>>

=============================================================================
